---- MODULE Spec2Model ----
(***************************************************************************)
(* Model of heuristic_steiner_tree/kou_et_al.py: the Kou-Markowsky-Berman  *)
(* Steiner tree approximation (kou_et_al) with its two helpers             *)
(* get_complete_distance_graph and remove_redundant_nodes.                 *)
(*                                                                         *)
(* A graph is a record [nodes, edges, weight]: edges are two-element sets  *)
(* of nodes, and weight is a function on the edges that carry the weight   *)
(* attribute (an edge outside its domain has no such attribute).           *)
(*                                                                         *)
(* The graph engine (networkx) is modelled by its contract: astar_path     *)
(* returns some shortest path (the heuristic is taken to be admissible),   *)
(* minimum_spanning_tree returns some minimum spanning forest, and         *)
(* next(g.neighbors(n)) returns the first neighbour in an adjacency order  *)
(* the caller does not control: each is a choice among the possible        *)
(* outcomes. The weight key is the default one, "weight".                  *)
(***************************************************************************)
EXTENDS Integers, Sequences, FiniteSets

\* ----------------------------------------------------------------- bounds
MaxSmallNodes == 4
MaxNodes == 6
MaxEdges == 6
MaxTerminals == 3
MaxWeight == 3
MaxTreeNodes == 5

\* edge weights are positive: a light edge weighs 1, a heavy one MaxWeight
Weights == {1, MaxWeight}

\* ----------------------------------------------------------------- graphs
NoWeights == [e \in {} |-> 0]

EmptyGraph == [nodes |-> {}, edges |-> {}, weight |-> NoWeights]

Range(s) == {s[i] : i \in 1..Len(s)}

AllPairs(N) == {{u, v} : u, v \in N} \ {{u} : u \in N}

Neighbors(G, n) == {m \in G.nodes : {n, m} \in G.edges}

Degree(G, n) == Cardinality(Neighbors(G, n))

\* G.remove_node(n): the node and its incident edges go
RemoveNode(G, n) ==
    LET E == {e \in G.edges : n \notin e}
    IN [nodes |-> G.nodes \ {n},
        edges |-> E,
        weight |-> [e \in (DOMAIN G.weight) \cap E |-> G.weight[e]]]

\* d.get(weight, 1): the engine's reading of an edge weight
WeightOf(G, e) == IF e \in DOMAIN G.weight THEN G.weight[e] ELSE 1

RECURSIVE SumWeights(_, _)
SumWeights(G, E) ==
    IF E = {} THEN 0
    ELSE LET e == CHOOSE x \in E : TRUE
         IN WeightOf(G, e) + SumWeights(G, E \ {e})

RECURSIVE ReachFrom(_, _, _)
ReachFrom(N, E, S) ==
    LET S2 == S \cup {m \in N : \E n \in S : {n, m} \in E}
    IN IF S2 = S THEN S ELSE ReachFrom(N, E, S2)

\* nx.connected_components
Components(N, E) == {ReachFrom(N, E, {n}) : n \in N}

HasPath(G, u, v) == u \in G.nodes /\ v \in ReachFrom(G.nodes, G.edges, {u})

IsTree(N, E) ==
    /\ Cardinality(Components(N, E)) = 1
    /\ Cardinality(E) = Cardinality(N) - 1

\* ----------------------------------------------------- the graph engine
RECURSIVE PathsFrom(_, _, _)
PathsFrom(G, p, t) ==
    LET last == p[Len(p)]
    IN IF last = t THEN {p}
       ELSE UNION {PathsFrom(G, Append(p, m), t) : m \in Neighbors(G, last) \ Range(p)}

PathEdges(p) == {{p[i], p[i + 1]} : i \in 1..(Len(p) - 1)}

PathLength(G, p) == SumWeights(G, PathEdges(p))

\* nx.astar_path: the shortest paths the search may return (none: NetworkXNoPath)
astar_path(G, s, t) ==
    LET P == PathsFrom(G, <<s>>, t)
    IN {p \in P : \A q \in P : PathLength(G, p) <= PathLength(G, q)}

\* nx.astar_path_length, defined when a path exists
astar_path_length(G, s, t) ==
    PathLength(G, CHOOSE p \in astar_path(G, s, t) : TRUE)

\* nx.minimum_spanning_tree: the spanning forests of least weight (all nodes kept)
SpanningForests(G) ==
    LET k == Cardinality(G.nodes) - Cardinality(Components(G.nodes, G.edges))
    IN {F \in SUBSET G.edges :
          /\ Cardinality(F) = k
          /\ Components(G.nodes, F) = Components(G.nodes, G.edges)}

Least(S) == CHOOSE x \in S : \A y \in S : x <= y

LightestOf(G, SF, m) ==
    {[nodes |-> G.nodes, edges |-> F, weight |-> [e \in (DOMAIN G.weight) \cap F |-> G.weight[e]]] :
       F \in {X \in SF : SumWeights(G, X) = m}}

minimum_spanning_tree(G) ==
    LET SF == SpanningForests(G)
    IN LightestOf(G, SF, Least({SumWeights(G, F) : F \in SF}))

\* ------------------------------------------------------------- sequences
RECURSIVE RemoveFirst(_, _)
\* list.remove(x): drops the first occurrence
RemoveFirst(s, x) ==
    IF s = <<>> THEN <<>>
    ELSE IF Head(s) = x THEN Tail(s)
    ELSE <<Head(s)>> \o RemoveFirst(Tail(s), x)

\* the orders in which g.nodes() may list the nodes of S
Orderings(S) ==
    {s \in [1..Cardinality(S) -> S] : \A i, j \in 1..Cardinality(S) : i # j => s[i] # s[j]}

\* ------------------------------------------------------------------ state
VARIABLES
    g_original,              \* the input graph
    terminal_points,         \* the terminals (a list of distinct nodes, as a set)
    pc,                      \* the line kou_et_al is at; "returned" / "raised"
    error,                   \* the exception raised, "none" when none
    g1, g2, g3, g4,          \* the intermediate graphs of kou_et_al
    todo,                    \* g2's edges the loop of line 100 has not expanded yet
    g,                       \* remove_redundant_nodes: the working copy
    leaf_non_terminal_nodes, \* remove_redundant_nodes: the worklist
    snapshot,                \* what is left of the slice copy the for loop walks
    result,                  \* the graph returned
    calls,                   \* how many times remove_redundant_nodes has been entered
    first                    \* the graph its first call returned

vars == <<g_original, terminal_points, pc, error, g1, g2, g3, g4, todo,
          g, leaf_non_terminal_nodes, snapshot, result, calls, first>>

pipeline == <<g_original, terminal_points, g1, g2, g3, todo>>
pruner == <<g, leaf_non_terminal_nodes, snapshot>>

\* ------------------------------------------------- remove_redundant_nodes
\* lines 53-56: copy the graph, collect the non-terminal leaves
PruneStart ==
    /\ pc = "L53"
    /\ g' = g4
    /\ \E order \in Orderings({n \in g4.nodes : Degree(g4, n) = 1 /\ n \notin terminal_points}) :
          leaf_non_terminal_nodes' = order
    /\ snapshot' = <<>>
    /\ calls' = calls + 1
    /\ pc' = "L59"
    /\ UNCHANGED <<pipeline, g4, error, result, first>>

\* line 59-60: the while test, and the slice copy the for loop walks; line 68
PruneWhile ==
    /\ pc = "L59"
    /\ IF leaf_non_terminal_nodes # <<>>
       THEN /\ snapshot' = leaf_non_terminal_nodes
            /\ pc' = "L60"
            /\ UNCHANGED <<result, first>>
       ELSE /\ result' = g
            /\ first' = IF calls = 1 THEN g ELSE first
            /\ pc' = "returned"
            /\ UNCHANGED snapshot
    /\ UNCHANGED <<pipeline, g4, error, g, leaf_non_terminal_nodes, calls>>

\* the neighbours next(g.neighbors(node)) may yield
NextNeighbour(G, node) == Neighbors(G, node)

\* line 62: is the neighbour put on the worklist
Enqueues(G, node, neighbour) == neighbour \notin terminal_points

\* lines 60-66: one iteration of the for loop. g.neighbors raises NetworkXError
\* for a node no longer in g, next() raises StopIteration for a node without
\* neighbours (the node is always still on the worklist when line 65 removes it:
\* the slice holds no more copies of it than the worklist)
PruneFor ==
    /\ pc = "L60"
    /\ IF snapshot = <<>>
       THEN /\ pc' = "L59"
            /\ UNCHANGED <<error, pruner>>
       ELSE LET node == Head(snapshot)
            IN IF node \notin g.nodes
               THEN /\ pc' = "raised"
                    /\ error' = "NetworkXError"
                    /\ UNCHANGED pruner
               ELSE IF NextNeighbour(g, node) = {}
               THEN /\ pc' = "raised"
                    /\ error' = "StopIteration"
                    /\ UNCHANGED pruner
               ELSE \E neighbour \in NextNeighbour(g, node) :
                    /\ leaf_non_terminal_nodes' =
                          RemoveFirst(IF Enqueues(g, node, neighbour)
                                      THEN Append(leaf_non_terminal_nodes, neighbour)
                                      ELSE leaf_non_terminal_nodes, node)
                    /\ g' = RemoveNode(g, node)
                    /\ snapshot' = Tail(snapshot)
                    /\ pc' = "L60"
                    /\ UNCHANGED error
    /\ UNCHANGED <<pipeline, g4, result, calls, first>>

\* remove_redundant_nodes applied again to the graph it returned
Reapply ==
    /\ pc = "returned"
    /\ calls = 1
    /\ g4' = result
    /\ pc' = "L53"
    /\ UNCHANGED <<pipeline, pruner, error, result, calls, first>>

\* the trees remove_redundant_nodes is given: every tree on 1..n, n <= MaxTreeNodes,
\* with any set of its nodes as terminals
InitPrune ==
    /\ \E n \in 1..MaxTreeNodes : \E E \in SUBSET AllPairs(1..n) :
          /\ IsTree(1..n, E)
          /\ g4 = [nodes |-> 1..n, edges |-> E, weight |-> [e \in E |-> 1]]
    /\ terminal_points \in SUBSET g4.nodes
    /\ g_original = g4
    /\ pc = "L53"
    /\ error = "none"
    /\ g1 = EmptyGraph /\ g2 = EmptyGraph /\ g3 = EmptyGraph
    /\ todo = {}
    /\ g = EmptyGraph
    /\ leaf_non_terminal_nodes = <<>>
    /\ snapshot = <<>>
    /\ result = EmptyGraph
    /\ calls = 0
    /\ first = EmptyGraph

NextPrune == PruneStart \/ PruneWhile \/ PruneFor \/ Reapply

SpecPrune == InitPrune /\ [][NextPrune]_vars

\* ---------------------------------------------- get_complete_distance_graph
\* line 35: does astar_path_length find a path for the pair
Reachable(G, p1, p2) == HasPath(G, p1, p2)

\* the distance graph built over all the nodes of G instead of the terminals
DistanceGraphOverAllNodes(G, T) ==
    [nodes |-> G.nodes,
     edges |-> AllPairs(T),
     weight |-> [e \in AllPairs(T) |->
                   LET p1 == CHOOSE n \in e : TRUE
                       p2 == CHOOSE n \in e : n # p1
                   IN astar_path_length(G, p1, p2)]]

\* lines 28-38, given that every pair is reachable
get_complete_distance_graph(G, T) ==
    [nodes |-> T,
     edges |-> AllPairs(T),
     weight |-> [e \in AllPairs(T) |->
                   LET p1 == CHOOSE n \in e : TRUE
                       p2 == CHOOSE n \in e : n # p1
                   IN astar_path_length(G, p1, p2)]]

\* -------------------------------------------------------------- kou_et_al
\* the distance graph with the unreachable pairs left out instead of a failure
DistanceGraphSkipsUnreachable ==
    /\ pc = "L91"
    /\ LET E == {e \in AllPairs(terminal_points) : \A p1, p2 \in e : Reachable(g_original, p1, p2)}
       IN g1' = [nodes |-> terminal_points,
                 edges |-> E,
                 weight |-> [e \in E |->
                               LET p1 == CHOOSE n \in e : TRUE
                                   p2 == CHOOSE n \in e : n # p1
                               IN astar_path_length(g_original, p1, p2)]]
    /\ pc' = "L94"
    /\ UNCHANGED <<g_original, terminal_points, g2, g3, g4, todo, pruner, result, calls, first, error>>

\* line 91: the distance graph, or NetworkXNoPath from the first unreachable pair
DistanceGraph ==
    /\ pc = "L91"
    /\ IF \A e \in AllPairs(terminal_points) : \A p1, p2 \in e : Reachable(g_original, p1, p2)
       THEN /\ g1' = get_complete_distance_graph(g_original, terminal_points)
            /\ pc' = "L94"
            /\ UNCHANGED error
       ELSE /\ pc' = "raised"
            /\ error' = "NetworkXNoPath"
            /\ UNCHANGED g1
    /\ UNCHANGED <<g_original, terminal_points, g2, g3, g4, todo, pruner, result, calls, first>>

\* lines 94-97: the spanning tree of the distance graph; g3 starts empty
SpanningTreeReducer ==
    /\ pc = "L94"
    /\ g2' \in minimum_spanning_tree(g1)
    /\ todo' = g2'.edges
    /\ g3' = EmptyGraph
    /\ pc' = "L100"
    /\ UNCHANGED <<g_original, terminal_points, g1, g4, error, pruner, result, calls, first>>

\* line 104: the weight read for an edge of the path
HasWeight(G, e) == e \in DOMAIN G.weight

\* lines 103-104: the path's edges added to the accumulator with G's weights
AddPath(S, G, p) ==
    [nodes |-> S.nodes \cup Range(p),
     edges |-> S.edges \cup PathEdges(p),
     weight |-> [e \in S.edges \cup PathEdges(p) |->
                   IF e \in PathEdges(p) THEN G.weight[e] ELSE S.weight[e]]]

\* lines 100-104: one iteration of the loop over g2's edges (the graphs are sets,
\* so the order g2.edges() lists them in changes no outcome and one is fixed);
\* KeyError when an edge of the path has no weight attribute
PathExpander ==
    /\ pc = "L100"
    /\ IF todo = {}
       THEN /\ pc' = "L107"
            /\ UNCHANGED <<g3, todo, error>>
       ELSE LET e == CHOOSE x \in todo : TRUE
                start_node == CHOOSE n \in e : TRUE
                end_node == CHOOSE n \in e : n # start_node
            IN \E shortest_path \in astar_path(g_original, start_node, end_node) :
               IF \A pe \in PathEdges(shortest_path) : HasWeight(g_original, pe)
               THEN /\ g3' = AddPath(g3, g_original, shortest_path)
                    /\ todo' = todo \ {e}
                    /\ pc' = "L100"
                    /\ UNCHANGED error
               ELSE /\ pc' = "raised"
                    /\ error' = "KeyError"
                    /\ UNCHANGED <<g3, todo>>
    /\ UNCHANGED <<g_original, terminal_points, g1, g2, g4, pruner, result, calls, first>>

\* lines 107-110: the spanning tree of the accumulator, handed to remove_redundant_nodes
SubgraphReducer ==
    /\ pc = "L107"
    /\ g4' \in minimum_spanning_tree(g3)
    /\ pc' = "L53"
    /\ UNCHANGED <<pipeline, error, pruner, result, calls, first>>

\* The inputs. Nodes are opaque and every stage treats them alike, so an input
\* is named up to renaming: its k terminals are 1..k.
\* Small inputs: every graph on 1..MaxSmallNodes, each edge with a weight in
\* Weights or with no weight attribute, with 0..MaxSmallNodes terminals
SmallInput ==
    \E E \in SUBSET AllPairs(1..MaxSmallNodes) : \E D \in SUBSET E : \E w \in [D -> Weights] :
        /\ g_original = [nodes |-> 1..MaxSmallNodes, edges |-> E, weight |-> w]
        /\ \E k \in 0..MaxSmallNodes : terminal_points = 1..k

\* the nodes of S are named by non-increasing degree
ByDegree(S, E) ==
    \A m, n \in S : m < n => Cardinality({e \in E : m \in e}) >= Cardinality({e \in E : n \in e})

\* Larger inputs: every connected graph on 1..MaxNodes with at most MaxEdges
\* edges, each with a weight in Weights, and MaxTerminals terminals; among the
\* terminals and among the other nodes, names go by degree
LargeInput ==
    \E E \in SUBSET AllPairs(1..MaxNodes) :
        /\ Cardinality(E) <= MaxEdges
        /\ Cardinality(Components(1..MaxNodes, E)) = 1
        /\ ByDegree(1..MaxTerminals, E)
        /\ ByDegree((MaxTerminals + 1)..MaxNodes, E)
        /\ \E w \in [E -> Weights] :
              g_original = [nodes |-> 1..MaxNodes, edges |-> E, weight |-> w]
        /\ terminal_points = 1..MaxTerminals

Init ==
    /\ SmallInput \/ LargeInput
    /\ pc = "L91"
    /\ error = "none"
    /\ g1 = EmptyGraph /\ g2 = EmptyGraph /\ g3 = EmptyGraph /\ g4 = EmptyGraph
    /\ todo = {}
    /\ g = EmptyGraph
    /\ leaf_non_terminal_nodes = <<>>
    /\ snapshot = <<>>
    /\ result = EmptyGraph
    /\ calls = 0
    /\ first = EmptyGraph

Next ==
    \/ DistanceGraph
    \/ SpanningTreeReducer
    \/ PathExpander
    \/ SubgraphReducer
    \/ PruneStart
    \/ PruneWhile
    \/ PruneFor

Spec == Init /\ [][Next]_vars

\* ----------------------------------------------------------------- claims
\* every pair of terminals has a path in the input graph
TerminalsConnected ==
    \/ terminal_points = {}
    \/ LET s == CHOOSE n \in terminal_points : TRUE
       IN terminal_points \subseteq ReachFrom(g_original.nodes, g_original.edges, {s})

NonTerminalLeaves(G) == {n \in G.nodes : Degree(G, n) = 1 /\ n \notin terminal_points}

\* C1: with at least two terminals, all in one component of G, the graph
\* kou_et_al returns contains every terminal and joins every pair of terminals
\* by a path, whatever the engine picks among ties.
C1_TerminalsJoined ==
    (pc = "returned" /\ Cardinality(terminal_points) >= 2 /\ TerminalsConnected)
        => /\ terminal_points \subseteq result.nodes
           /\ \A s, t \in terminal_points : HasPath(result, s, t)

\* C2: with a non-empty terminal set inside one component of G, the graph
\* kou_et_al returns is a tree: one connected component, |edges| = |nodes| - 1.
C2_ResultIsTree ==
    (pc = "returned" /\ terminal_points # {} /\ TerminalsConnected)
        => IsTree(result.nodes, result.edges)

\* C3: every node of degree 1 of the graph kou_et_al returns is a terminal;
\* the graph remove_redundant_nodes returns has no non-terminal leaf.
C3_LeavesAreTerminals ==
    pc = "returned" => NonTerminalLeaves(result) = {}

\* C4: when some pair of terminals has no path in G, kou_et_al fails with
\* NetworkXNoPath while building the distance graph: it never gets past line
\* 91, builds no distance graph and no tree, and returns nothing.
C4_UnreachableTerminalFails ==
    ~TerminalsConnected
        => /\ pc \in {"L91", "raised"}
           /\ pc = "raised" => error = "NetworkXNoPath"
           /\ g1 = EmptyGraph /\ g3 = EmptyGraph /\ g4 = EmptyGraph
           /\ calls = 0

\* C4's case: terminals in two components that each have edges, and the failure
C4_Witness ==
    /\ pc = "raised"
    /\ error = "NetworkXNoPath"
    /\ \E s, t \in terminal_points :
          /\ ~HasPath(g_original, s, t)
          /\ Neighbors(g_original, s) # {}
          /\ Neighbors(g_original, t) # {}

\* C5: with exactly one terminal t, kou_et_al does not fail and returns the
\* graph whose only node is t, with no edge.
C5_SingleTerminal ==
    Cardinality(terminal_points) = 1
        => /\ pc # "raised"
           /\ pc = "returned" => (result.nodes = terminal_points /\ result.edges = {})

\* C6 as stated: with an empty terminal set, kou_et_al fails before it builds
\* any intermediate graph and never returns a graph.
C6_EmptyTerminalsFail ==
    terminal_points = {} => pc \in {"L91", "raised"}

\* C6 amended: with an empty terminal set, kou_et_al raises nothing; every
\* intermediate graph it builds is empty and it returns the empty graph.
C6_EmptyTerminalsReturnEmpty ==
    terminal_points = {}
        => /\ pc # "raised" /\ error = "none"
           /\ g1 = EmptyGraph /\ g2 = EmptyGraph /\ g3 = EmptyGraph /\ g4 = EmptyGraph
           /\ g = EmptyGraph
           /\ pc = "returned" => result = EmptyGraph

\* C6's case: a graph with edges, no terminal, and kou_et_al has returned
C6_Witness ==
    /\ terminal_points = {}
    /\ g_original.edges # {}
    /\ pc = "returned"
    /\ calls = 1

\* C7: an edge of G without the weight attribute counts as weight 1 in every
\* stage, and kou_et_al does not fail on it.
C7_MissingWeightIsOne ==
    (\E e \in g_original.edges : ~HasWeight(g_original, e)) => error # "KeyError"

\* C8: every node remove_redundant_nodes removes is, when it is removed, a
\* non-terminal of degree exactly 1 in the current graph.
C8_RemovedAreLeaves ==
    [][\A n \in g.nodes :
          (pc = "L60" /\ n \notin g'.nodes) => (Degree(g, n) = 1 /\ n \notin terminal_points)]_vars

\* C9: on a tree S' with a non-empty set T of terminals, remove_redundant_nodes runs to Done: no
\* step meets a node already removed or one left without a neighbour, and it
\* removes at most |S'| - |T| nodes.
C9_PrunerTerminates ==
    (calls = 1 /\ terminal_points # {})
        => /\ pc # "raised"
           /\ Cardinality(g4.nodes \ g.nodes) <= Cardinality(g4.nodes) - Cardinality(terminal_points)

\* C10: pruning the pruned tree again changes nothing: the second call returns
\* the nodes and edges the first returned.
C10_PruneIdempotent ==
    (calls = 2 /\ pc = "returned")
        => (result.nodes = first.nodes /\ result.edges = first.edges)

====
